---- MODULE Spec2Model ----
(***************************************************************************)
(* Safe_KerasModel (safemodel/classifiers/safekeras.py): the snapshot      *)
(* comparators, the optimizer checks, the privacy-budget check and the     *)
(* release decision posthoc_check, as a state machine over one model       *)
(* instance and the two checkpoint files it writes under tfsaves/.         *)
(*                                                                         *)
(* Python values are modelled as follows.                                  *)
(*   - A keras model is the sequence of its layers; a layer is a record    *)
(*     [config, weights]: config is a function from key names to values    *)
(*     (get_config()), weights is the sequence of its weight groups        *)
(*     (get_weights()), a group is a sequence of numbers (a numpy array).  *)
(*     Layer indices are 1-based here, 0-based in the messages.            *)
(*   - A message is a sequence of parts; string concatenation is \o; the   *)
(*     empty string is << >>. A part is a tuple whose first element names  *)
(*     the text and whose other elements are the values formatted into it. *)
(*   - An attribute that may be missing is << >> (missing) or << v >>.     *)
(***************************************************************************)
EXTENDS Integers, Sequences, FiniteSets, TLC

VARIABLES
    live,              \* the layers of the model object (self.layers)
    store,             \* the checkpoint files: file name -> << >> or << layers >>
    optimizer,         \* self.optimizer
    compiled,          \* keras: compile() has been called on the model
    num_samples,       \* self.num_samples
    batch_size,        \* self.batch_size
    epochs,            \* self.epochs
    min_epsilon,       \* self.min_epsilon
    current_epsilon,   \* self.current_epsilon   (<< >> until check_epsilon runs)
    saved_was_dpused,  \* self.saved_was_dpused  (<< >> until a fit completes)
    saved_reason,      \* self.saved_reason      (<< >> until a fit completes)
    saved_epsilon,     \* self.saved_epsilon     (<< >> until a fit completes)
    ret,               \* what the last call returned or raised
    phase              \* history: where the run stands in the documented scenarios

vars == << live, store, optimizer, compiled, num_samples, batch_size, epochs,
           min_epsilon, current_epsilon, saved_was_dpused, saved_reason,
           saved_epsilon, ret, phase >>

(***************************************************************************)
(* Bounds.                                                                 *)
(***************************************************************************)
\* most layers the model object is given by the layer-adding edit
MaxLayers == 2
\* most layers of a snapshot handed to the comparators
CmpMaxLayers == 2
\* most weight groups of a layer of a snapshot handed to the comparators
CmpMaxGroups == 2

(***************************************************************************)
(* Small helpers.                                                          *)
(***************************************************************************)
Min(S) == CHOOSE x \in S : \A y \in S : x <= y

SeqsUpTo(S, n) == UNION { [1..k -> S] : k \in 0..n }

\* the function with domain D of the pairs of f
Restrict(f, D) == [k \in D |-> f[k]]

(***************************************************************************)
(* Python values whose truth value the code tests: a str or a bool.        *)
(***************************************************************************)
PyStr(m) == [ty |-> "str", s |-> m, b |-> FALSE]

PyBool(v) == [ty |-> "bool", s |-> << >>, b |-> v]

\* bool(x): a string is true iff it is not empty
Truthy(x) == IF x.ty = "bool" THEN x.b ELSE x.s # << >>

(***************************************************************************)
(* dictdiffer.diff(first, second, expand=True) on two flat mappings: one   *)
(* entry per key: changed, added (in second only), removed (first only).   *)
(* A 'change' entry is (change, key, (first value, second value)).         *)
(***************************************************************************)
diff(first, second) ==
    { << "change", k, << first[k], second[k] >> >> :
          k \in { x \in DOMAIN first \cap DOMAIN second : first[x] # second[x] } }
    \cup { << "add", k, << second[k] >> >> : k \in DOMAIN second \ DOMAIN first }
    \cup { << "remove", k, << first[k] >> >> : k \in DOMAIN first \ DOMAIN second }

\* the text same_configs appends for one entry of the diff
diff_entry_text(m) ==
    IF m[1] = "change"
    THEN << "parameter changed from to after model was fitted", m[2], m[3][2], m[3][1] >>
    ELSE << "entry", m[1], m[2], m[3] >>

\* same_configs without its layer-count test: the layers both models have
same_configs_common_layers(m1, m2) ==
    LET n == IF Len(m1) < Len(m2) THEN Len(m1) ELSE Len(m2)
        differing == { layer \in 1..n : diff(m1[layer].config, m2[layer].config) # {} }
    IN  IF differing = {}
        THEN << TRUE, << << "configurations match" >> >> >>
        ELSE LET layer == Min(differing)
                 match == diff(m1[layer].config, m2[layer].config)
             IN  << FALSE,
                    << << "Layer configs differ in places", layer - 1,
                          Cardinality(match),
                          { diff_entry_text(m) : m \in match } >> >> >>

same_configs(m1, m2) ==
    IF Len(m1) # Len(m2)
    THEN << FALSE, << << "different numbers of layers" >> >> >>
    ELSE LET differing == { layer \in 1..Len(m1) :
                              diff(m1[layer].config, m2[layer].config) # {} }
         IN  IF differing = {}
             THEN << TRUE, << << "configurations match" >> >> >>
             ELSE LET layer == Min(differing)
                      match == diff(m1[layer].config, m2[layer].config)
                  IN  << FALSE,
                         << << "Layer configs differ in places", layer - 1,
                               Cardinality(match),
                               { diff_entry_text(m) : m \in match } >> >> >>

\* numpy.array_equal: same shape and same elements
array_equal(a, b) == a = b

\* the two arrays m1d, m2d that same_weights compares for group dim of a layer
compared_arrays(m1layer, m2layer, dim) == << m2layer[dim], m2layer[dim] >>

\* the first (layer, group) at which same_weights returns inside its loops:
\* << layer, 0 >> for a layer whose group counts differ, << layer, dim >> for a
\* group that differs, << 0, 0 >> when the loops run to the end
first_weight_stop(m1, m2) ==
    LET stops(layer) ==
            IF Len(m1[layer].weights) # Len(m2[layer].weights)
            THEN { 0 }
            ELSE { dim \in 1..Len(m1[layer].weights) :
                     LET pair == compared_arrays(m1[layer].weights,
                                                 m2[layer].weights, dim)
                     IN  ~ array_equal(pair[1], pair[2]) }
         bad == { layer \in 1..Len(m1) : stops(layer) # {} }
    IN  IF bad = {} THEN << 0, 0 >>
        ELSE << Min(bad), Min(stops(Min(bad))) >>

same_weights(m1, m2) ==
    IF Len(m1) # Len(m2)
    THEN << FALSE, << << "different numbers of layers" >> >> >>
    ELSE LET stop == first_weight_stop(m1, m2)
         IN  IF stop[1] = 0
             THEN << TRUE, << << "weights match" >> >> >>
             ELSE IF stop[2] = 0
             THEN << FALSE, << << "layer not the same size", stop[1] - 1 >> >> >>
             ELSE << FALSE, << << "dimension of layer differs",
                                   stop[2] - 1, stop[1] - 1 >> >> >>

\* tf.keras.models.load_model fails on a path that was never written
load_fails(st, v) == st[v] = << >>

\* test_checkpoint_equality returning its variable same (True) on a failed load
test_checkpoint_equality_same_on_error(st, v1, v2) ==
    IF load_fails(st, v1)
    THEN << TRUE, << << "Error re-loading model from", v1 >> >> >>
    ELSE IF load_fails(st, v2)
    THEN << TRUE, << << "Error re-loading model from", v2 >> >> >>
    ELSE LET c == same_configs(st[v1][1], st[v2][1])
             w == same_weights(st[v1][1], st[v2][1])
         IN  << TRUE,
                (IF ~ c[1] THEN c[2] ELSE << >>) \o (IF ~ w[1] THEN w[2] ELSE << >>) >>

test_checkpoint_equality(st, v1, v2) ==
    IF load_fails(st, v1)
    THEN << FALSE, << << "Error re-loading model from", v1 >> >> >>
    ELSE IF load_fails(st, v2)
    THEN << FALSE, << << "Error re-loading model from", v2 >> >> >>
    ELSE LET model1 == st[v1][1]
             model2 == st[v2][1]
             c == same_configs(model1, model2)
             w == same_weights(model1, model2)
             same == TRUE
         IN  << same,
                (IF ~ c[1] THEN c[2] ELSE << >>) \o (IF ~ w[1] THEN w[2] ELSE << >>) >>
(***************************************************************************)
(* Optimizers. self.optimizer holds whatever was assigned to it: None, a   *)
(* string, an optimizer class, or an optimizer object. Only an object has  *)
(* the attribute _was_dp_gradients_called in its __dict__ (flag), and only *)
(* an object of a tensorflow_privacy class: "absent" otherwise.            *)
(***************************************************************************)
Opt(kind, name, flag) == [kind |-> kind, name |-> name, flag |-> flag]

DPClasses == { "DPKerasSGDOptimizer", "DPKerasAdagradOptimizer", "DPKerasAdamOptimizer" }

\* the default of the constructor
DefaultOptimizer == Opt("class", "DPKerasSGDOptimizer", "absent")

\* what a caller assigns to model.optimizer
OptimizerChoices ==
    { Opt("instance", "SGD", "absent"),
      Opt("str", "tensorflow_privacy.DPKerasSGDOptimizer", "absent") }

allowed_optimizers ==
    { "tensorflow_privacy.DPKerasAdagradOptimizer",
      "tensorflow_privacy.DPKerasAdamOptimizer",
      "tensorflow_privacy.DPKerasSGDOptimizer" }

\* self.optimizer in allowed_optimizers: == against a list of strings
in_allowed_optimizers(o) == o.kind = "str" /\ o.name \in allowed_optimizers

\* returns the pair (reason, disclosive); selfopt is self.optimizer, the
\* parameter optimizer is not read
check_optimizer_allowed(selfopt, opt) ==
    IF in_allowed_optimizers(selfopt)
    THEN << PyStr(<< << "optimizer allowed", selfopt >> >>), PyBool(FALSE) >>
    ELSE << PyStr(<< << "optimizer is not allowed", selfopt >> >>), PyBool(TRUE) >>

\* optimizer.__dict__ exists: not for None nor for a str
has_dict(o) == o.kind \in { "class", "instance" }

reason_not_DP == << << "optimizer does not contain key _was_dp_gradients_called so is not DP." >> >>

reason_not_rerun == << << "optimizer has been changed but fit() has not been rerun." >> >>

reason_DP_run == << << " value of optimizer._was_dp_gradients_called is True, so DP variant of optimizer has been run" >> >>

\* check_DP_used testing only that the flag is present
check_DP_used_flag_present(o) ==
    IF o.flag = "absent" THEN << FALSE, reason_not_DP >>
    ELSE << TRUE, reason_DP_run >>

\* returns the pair (DPused, reason); called only where has_dict(o)
check_DP_used(o) ==
    IF o.flag = "absent" THEN << FALSE, reason_not_DP >>
    ELSE IF o.flag = "false" THEN << FALSE, reason_not_rerun >>
    ELSE << TRUE, reason_DP_run >>

\* the lookup finding the class of an optimizer object as well as the class
compile_opt_used_of_object(selfopt) ==
    IF selfopt.kind = "none" THEN "DPKerasSGDOptimizer"
    ELSE IF selfopt.kind \in { "class", "instance" } /\ selfopt.name \in DPClasses
    THEN selfopt.name
    ELSE IF selfopt.kind = "str" /\ selfopt.name = "Adagrad" THEN "DPKerasAdagradOptimizer"
    ELSE IF selfopt.kind = "str" /\ selfopt.name = "Adam" THEN "DPKerasAdamOptimizer"
    ELSE "DPKerasSGDOptimizer"

\* optimizer_dict.get(self.optimizer, "unknown"): the class compile instantiates
compile_opt_used(selfopt) ==
    IF selfopt.kind = "none" THEN "DPKerasSGDOptimizer"
    ELSE IF selfopt.kind = "class" /\ selfopt.name \in DPClasses THEN selfopt.name
    ELSE IF selfopt.kind = "str" /\ selfopt.name = "Adagrad" THEN "DPKerasAdagradOptimizer"
    ELSE IF selfopt.kind = "str" /\ selfopt.name = "Adam" THEN "DPKerasAdamOptimizer"
    ELSE IF selfopt.kind = "str" /\ selfopt.name = "SGD" THEN "DPKerasSGDOptimizer"
    ELSE "DPKerasSGDOptimizer"

\* compile keeping the optimizer object already bound when it is of the class
\* compile would instantiate
rebound_optimizer(selfopt) ==
    IF selfopt.kind = "instance" /\ selfopt.name = compile_opt_used(selfopt)
    THEN selfopt
    ELSE Opt("instance", compile_opt_used(selfopt), "false")

\* opt_used(l2_norm_clip=..., ...): a new object of a tensorflow_privacy
\* class, whose constructor sets _was_dp_gradients_called = False
new_optimizer(selfopt) == Opt("instance", compile_opt_used(selfopt), "false")

(***************************************************************************)
(* The privacy budget. compute_dp_sgd_privacy is the library's accountant: *)
(* here a fixed integer function that grows with the sampling rate         *)
(* batch_size / n and with epochs (noise_multiplier and delta are never    *)
(* changed); it divides by batch_size, so batch_size = 0 raises.           *)
(***************************************************************************)
DefaultMinEpsilon == 10

compute_dp_sgd_privacy(n, b, e) == (5 * b * e) \div n

accountant_raises(n, b, e) == b = 0

\* the budget test with the boundary included
dp_epsilon_met_inclusive(n, b, e, min_eps) ==
    LET privacy == compute_dp_sgd_privacy(n, b, e)
    IN  << privacy <= min_eps, privacy >>

\* returns the pair (ok, privacy[0])
dp_epsilon_met(n, b, e, min_eps) ==
    LET privacy == compute_dp_sgd_privacy(n, b, e)
    IN  << privacy < min_eps, privacy >>

\* returns [ok, msg] and the value it assigns to self.current_epsilon
check_epsilon(n, b, e, min_eps) ==
    LET bs == IF b = 0 THEN 1 ELSE b
        met == dp_epsilon_met(n, bs, e, min_eps)
    IN  [ ok |-> met[1],
          current_epsilon |-> met[2],
          msg |-> IF met[1]
                  THEN << << "The requirements for DP are met", met[2], n, bs, e >> >>
                  ELSE << << "The requirements for DP are not met", met[2], n, bs, e >> >> ]

\* (num_samples, batch_size, epochs) as the callers give them
BudgetArgs ==
    { << 250, 25, 20 >>, << 10, 1, 4 >>, << 10, 0, 4 >> }
(***************************************************************************)
(* What a call returned or raised.                                         *)
(***************************************************************************)
NoCall == [op |-> "", kind |-> "none", exc |-> "", msg |-> PyStr(<< >>), disclosive |-> FALSE]

Returned(op) == [NoCall EXCEPT !.op = op, !.kind = "return"]

Raised(op, exc) == [NoCall EXCEPT !.op = op, !.kind = "raise", !.exc = exc]

\* posthoc_check's return value (msg, disclosive)
Verdict(msg, disclosive) ==
    [NoCall EXCEPT !.op = "posthoc_check", !.kind = "return",
                   !.msg = msg, !.disclosive = disclosive]

(***************************************************************************)
(* The checkpoint files. save() writes the layers only (the optimizer is   *)
(* excluded); both names end in .tf, the suffix branch that writes.        *)
(***************************************************************************)
FitFile == "tfsaves/fit_model.tf"

RequestedFile == "tfsaves/requested_model.tf"

\* save() taking the branch that writes nothing
save_nothing(st, name, layers) == st

save(st, name, layers) == [st EXCEPT ![name] = << layers >>]

(***************************************************************************)
(* posthoc_check, after its save of the requested model: st is the files,  *)
(* self the attributes of the model object.                                *)
(***************************************************************************)
Self ==
    [ optimizer |-> optimizer, num_samples |-> num_samples,
      batch_size |-> batch_size, epochs |-> epochs, min_epsilon |-> min_epsilon,
      current_epsilon |-> current_epsilon, saved_was_dpused |-> saved_was_dpused,
      saved_reason |-> saved_reason, saved_epsilon |-> saved_epsilon ]

message_config_changed == << << "Optimizer config has been changed since training." >> >>

message_epsilon_above(eps) ==
    << << "WARNING: epsilon is above normal max recommended value. Discussion with researcher needed.", eps >> >>

message_allow_release(eps) ==
    << << "Recommendation: Allow release. Epsilon vale of model is below normal max recommended value.", eps >> >>

\* the last step: the value of epsilon achieved
posthoc_epsilon_step(self) ==
    IF accountant_raises(self.num_samples, self.batch_size, self.epochs)
    THEN Raised("posthoc_check", "ZeroDivisionError")
    ELSE LET met == dp_epsilon_met(self.num_samples, self.batch_size,
                                   self.epochs, self.min_epsilon)
         IN  IF ~ met[1]
             THEN Verdict(PyStr(message_epsilon_above(met[2])), TRUE)
             ELSE Verdict(PyStr(message_allow_release(met[2])), FALSE)

\* the comparison with the values after fit() without the epsilon disjunct
posthoc_saved_step_no_epsilon(self, dpused, dpusedmessage) ==
    IF self.saved_was_dpused = << >> THEN Raised("posthoc_check", "AttributeError")
    ELSE IF dpused # self.saved_was_dpused[1]
    THEN Verdict(PyStr(message_config_changed), TRUE)
    ELSE IF self.saved_reason = << >> THEN Raised("posthoc_check", "AttributeError")
    ELSE IF dpusedmessage # self.saved_reason[1]
    THEN Verdict(PyStr(message_config_changed), TRUE)
    ELSE posthoc_epsilon_step(self)

\* "is this the same as the values immediately after fit()?": the or-chain,
\* left to right, reading an attribute that was never assigned raises
posthoc_saved_step(self, dpused, dpusedmessage) ==
    IF self.saved_was_dpused = << >> THEN Raised("posthoc_check", "AttributeError")
    ELSE IF dpused # self.saved_was_dpused[1]
    THEN Verdict(PyStr(message_config_changed), TRUE)
    ELSE IF self.saved_reason = << >> THEN Raised("posthoc_check", "AttributeError")
    ELSE IF dpusedmessage # self.saved_reason[1]
    THEN Verdict(PyStr(message_config_changed), TRUE)
    ELSE IF self.saved_epsilon = << >> \/ self.current_epsilon = << >>
    THEN Raised("posthoc_check", "AttributeError")
    ELSE IF self.saved_epsilon[1] # self.current_epsilon[1]
    THEN Verdict(PyStr(message_config_changed), TRUE)
    ELSE posthoc_epsilon_step(self)

\* "was the dp-optimiser used during fit()"
posthoc_dpused_step(self) ==
    IF ~ has_dict(self.optimizer) THEN Raised("posthoc_check", "AttributeError")
    ELSE LET used == check_DP_used(self.optimizer)
         IN  IF ~ used[1] THEN Verdict(PyStr(used[2]), TRUE)
             ELSE posthoc_saved_step(self, used[1], used[2])

\* "was a dp-enbled optimiser provided?": allowed, allowedmessage are the
\* first and second element of what check_optimizer_allowed returns
posthoc_allowed_step(self) ==
    LET r == check_optimizer_allowed(self.optimizer, self.optimizer)
        allowed == r[1]
        allowedmessage == r[2]
    IN  IF ~ Truthy(allowed) THEN Verdict(allowedmessage, TRUE)
        ELSE posthoc_dpused_step(self)

posthoc_check(st, self) ==
    LET r == test_checkpoint_equality(st, FitFile, RequestedFile)
        models_same == r[1]
        same_msg == r[2]
    IN  IF ~ models_same THEN Verdict(PyStr(same_msg), TRUE)
        ELSE posthoc_allowed_step(self)

(***************************************************************************)
(* The model object as constructed, and what callers do to it.             *)
(***************************************************************************)
\* a layer with one weight group of one element
DenseLayer == [config |-> [k \in {"units"} |-> 1], weights |-> << << 0 >> >>]

\* a layer without weights
DropoutLayer == [config |-> [k \in {"rate"} |-> 1], weights |-> << >>]

ConfigValues == { 1, 2 }

WeightValues == { 0, 1 }

\* the keys of a layer config the config edit assigns
EditedKeys == { "units" }

Init ==
    /\ live = << DenseLayer >>
    /\ store = [f \in { FitFile, RequestedFile } |-> << >>]
    /\ optimizer = DefaultOptimizer
    /\ compiled = FALSE
    /\ num_samples = 250
    /\ batch_size = 25
    /\ epochs = 20
    /\ min_epsilon = DefaultMinEpsilon
    /\ current_epsilon = << >>
    /\ saved_was_dpused = << >>
    /\ saved_reason = << >>
    /\ saved_epsilon = << >>
    /\ ret = NoCall
    /\ phase = "new"

\* layer.set_weights: one element of one weight group is overwritten
EditWeight(layer, dim, i, v) ==
    /\ live[layer].weights[dim][i] # v
    /\ live' = [live EXCEPT ![layer].weights[dim][i] = v]
    /\ ret' = NoCall
    /\ phase' = "other"
    /\ UNCHANGED << store, optimizer, compiled, num_samples, batch_size, epochs,
                    min_epsilon, current_epsilon, saved_was_dpused, saved_reason,
                    saved_epsilon >>

\* one field of one layer's config is overwritten
EditConfig(layer, key, v) ==
    /\ key \in DOMAIN live[layer].config
    /\ live[layer].config[key] # v
    /\ live' = [live EXCEPT ![layer].config[key] = v]
    /\ ret' = NoCall
    /\ phase' = "other"
    /\ UNCHANGED << store, optimizer, compiled, num_samples, batch_size, epochs,
                    min_epsilon, current_epsilon, saved_was_dpused, saved_reason,
                    saved_epsilon >>

AddLayer ==
    /\ Len(live) < MaxLayers
    /\ live' = Append(live, DropoutLayer)
    /\ ret' = NoCall
    /\ phase' = "other"
    /\ UNCHANGED << store, optimizer, compiled, num_samples, batch_size, epochs,
                    min_epsilon, current_epsilon, saved_was_dpused, saved_reason,
                    saved_epsilon >>

RemoveLayer ==
    /\ Len(live) > 1
    /\ live' = SubSeq(live, 1, Len(live) - 1)
    /\ ret' = NoCall
    /\ phase' = "other"
    /\ UNCHANGED << store, optimizer, compiled, num_samples, batch_size, epochs,
                    min_epsilon, current_epsilon, saved_was_dpused, saved_reason,
                    saved_epsilon >>

\* model.optimizer = o
SwapOptimizer(o) ==
    /\ optimizer # o
    /\ optimizer' = o
    /\ ret' = NoCall
    /\ phase' = "other"
    /\ UNCHANGED << live, store, compiled, num_samples, batch_size, epochs,
                    min_epsilon, current_epsilon, saved_was_dpused, saved_reason,
                    saved_epsilon >>

\* model.num_samples, model.batch_size, model.epochs = args
SetBudget(args) ==
    /\ << num_samples, batch_size, epochs >> # args
    /\ num_samples' = args[1]
    /\ batch_size' = args[2]
    /\ epochs' = args[3]
    /\ ret' = NoCall
    /\ phase' = "other"
    /\ UNCHANGED << live, store, optimizer, compiled, min_epsilon, current_epsilon,
                    saved_was_dpused, saved_reason, saved_epsilon >>

\* model.check_epsilon(num_samples, batch_size, epochs)
CheckEpsilon(args) ==
    LET r == check_epsilon(args[1], args[2], args[3], min_epsilon)
    IN  /\ current_epsilon' = << r.current_epsilon >>
        /\ ret' = [Returned("check_epsilon") EXCEPT !.msg = PyStr(r.msg)]
        /\ phase' = "other"
        /\ UNCHANGED << live, store, optimizer, compiled, num_samples, batch_size,
                        epochs, min_epsilon, saved_was_dpused, saved_reason,
                        saved_epsilon >>

\* model.compile(...): binds a new optimizer object
Compile ==
    /\ optimizer' = new_optimizer(optimizer)
    /\ compiled' = TRUE
    /\ ret' = Returned("compile")
    /\ phase' = IF phase = "fitted" THEN "recompiled" ELSE "other"
    /\ UNCHANGED << live, store, num_samples, batch_size, epochs, min_epsilon,
                    current_epsilon, saved_was_dpused, saved_reason, saved_epsilon >>

\* keras fit() runs: the model was compiled, self.optimizer is an optimizer
\* object and the batch size is usable
can_train(o, isCompiled, b) == isCompiled /\ o.kind = "instance" /\ b >= 1

\* the layers after training: every weight element becomes w
trained_layers(layers, w) ==
    [l \in 1..Len(layers) |->
        [layers[l] EXCEPT !.weights =
            [d \in 1..Len(layers[l].weights) |->
                [i \in 1..Len(layers[l].weights[d]) |-> w]]]]

\* the optimizer after training: a tensorflow_privacy optimizer computed
\* the gradients, which sets its _was_dp_gradients_called
trained_optimizer(o) == IF o.flag = "absent" THEN o ELSE [o EXCEPT !.flag = "true"]

\* fit without the early return on refine_epsilon
Fit_without_early_return(args, refine_epsilon, w) ==
    LET r == check_epsilon(args[1], args[2], args[3], min_epsilon)
    IN  /\ num_samples' = args[1]
        /\ batch_size' = args[2]
        /\ epochs' = args[3]
        /\ current_epsilon' = << r.current_epsilon >>
        /\ UNCHANGED << compiled, min_epsilon >>
        /\ IF ~ can_train(optimizer, compiled, args[2])
           THEN /\ ret' = Raised("fit", "Error")
                /\ phase' = "other"
                /\ UNCHANGED << live, store, optimizer, saved_was_dpused,
                                saved_reason, saved_epsilon >>
           ELSE /\ live' = trained_layers(live, w)
                /\ optimizer' = trained_optimizer(optimizer)
                /\ store' = save(store, FitFile, live')
                /\ saved_was_dpused' = << check_DP_used(optimizer')[1] >>
                /\ saved_reason' = << check_DP_used(optimizer')[2] >>
                /\ saved_epsilon' = current_epsilon'
                /\ ret' = [Returned("fit") EXCEPT !.msg = PyStr(<< << "History" >> >>)]
                /\ phase' = "fitted"

\* model.fit(X, Y, validation_data, epochs, batch_size, refine_epsilon) with
\* X.shape[0] = args[1]; w is what training makes of the weights
Fit(args, refine_epsilon, w) ==
    LET r == check_epsilon(args[1], args[2], args[3], min_epsilon)
    IN  /\ num_samples' = args[1]
        /\ batch_size' = args[2]
        /\ epochs' = args[3]
        /\ current_epsilon' = << r.current_epsilon >>
        /\ UNCHANGED << compiled, min_epsilon >>
        /\ IF refine_epsilon
           THEN /\ ret' = Returned("fit")
                /\ phase' = "other"
                /\ UNCHANGED << live, store, optimizer, saved_was_dpused,
                                saved_reason, saved_epsilon >>
           ELSE IF ~ can_train(optimizer, compiled, args[2])
           THEN /\ ret' = Raised("fit", "Error")
                /\ phase' = "other"
                /\ UNCHANGED << live, store, optimizer, saved_was_dpused,
                                saved_reason, saved_epsilon >>
           ELSE /\ live' = trained_layers(live, w)
                /\ optimizer' = trained_optimizer(optimizer)
                /\ store' = save(store, FitFile, live')
                /\ saved_was_dpused' = << check_DP_used(optimizer')[1] >>
                /\ saved_reason' = << check_DP_used(optimizer')[2] >>
                /\ saved_epsilon' = current_epsilon'
                /\ ret' = [Returned("fit") EXCEPT !.msg = PyStr(<< << "History" >> >>)]
                /\ phase' = "fitted"

\* model.posthoc_check()
PosthocCheck ==
    /\ store' = save(store, RequestedFile, live)
    /\ ret' = posthoc_check(store', Self)
    /\ UNCHANGED << live, optimizer, compiled, num_samples, batch_size, epochs,
                    min_epsilon, current_epsilon, saved_was_dpused, saved_reason,
                    saved_epsilon, phase >>

Next ==
    \/ \E layer \in 1..Len(live) : \E dim \in 1..Len(live[layer].weights) :
         \E i \in 1..Len(live[layer].weights[dim]) : \E v \in WeightValues :
            EditWeight(layer, dim, i, v)
    \/ \E layer \in 1..Len(live) : \E key \in EditedKeys : \E v \in ConfigValues :
            EditConfig(layer, key, v)
    \/ AddLayer
    \/ RemoveLayer
    \/ \E o \in OptimizerChoices : SwapOptimizer(o)
    \/ \E args \in BudgetArgs : SetBudget(args)
    \/ \E args \in BudgetArgs : CheckEpsilon(args)
    \/ Compile
    \/ \E args \in BudgetArgs : \E refine_epsilon \in BOOLEAN : \E w \in WeightValues :
            Fit(args, refine_epsilon, w)
    \/ PosthocCheck

Spec == Init /\ [][Next]_vars
(***************************************************************************)
(* The comparators on their own: two snapshots drawn from bounded sets are *)
(* written to the two checkpoint files and compared. SpecConfigs draws     *)
(* snapshots that differ in their layer configs, SpecWeights snapshots     *)
(* that differ in their weights.                                           *)
(***************************************************************************)
CmpKeys == { "units", "use_bias" }

\* the layer configs: any subset of the keys, units 1 or 2, use_bias 1
CmpConfigs ==
    { Restrict(c, D) : c \in { f \in [CmpKeys -> ConfigValues] : f["use_bias"] = 1 },
                       D \in SUBSET CmpKeys }

\* the weight groups: arrays of two elements
CmpArrays == [1..2 -> WeightValues]

CmpConfigModels ==
    SeqsUpTo([config : CmpConfigs, weights : { << << 0, 1 >> >> }], CmpMaxLayers)

CmpWeightModels ==
    SeqsUpTo([config : { DenseLayer.config }, weights : SeqsUpTo(CmpArrays, CmpMaxGroups)],
             CmpMaxLayers)

InitCompare(models) ==
    /\ \E m1 \in models : \E m2 \in models :
         /\ store = [f \in { FitFile, RequestedFile } |->
                        IF f = FitFile THEN << m1 >> ELSE << m2 >>]
         /\ live = m2
    /\ optimizer = DefaultOptimizer
    /\ compiled = FALSE
    /\ num_samples = 250
    /\ batch_size = 25
    /\ epochs = 20
    /\ min_epsilon = DefaultMinEpsilon
    /\ current_epsilon = << >>
    /\ saved_was_dpused = << >>
    /\ saved_reason = << >>
    /\ saved_epsilon = << >>
    /\ ret = NoCall
    /\ phase = "new"

\* the first and the second snapshot compared
Model1 == store[FitFile][1]

Model2 == store[RequestedFile][1]

\* same_configs, same_weights and test_checkpoint_equality on the two files
Compare ==
    /\ ret.op # "compare"
    /\ ret' = [ op |-> "compare",
                configs |-> same_configs(Model1, Model2),
                weights |-> same_weights(Model1, Model2),
                checkpoint |-> test_checkpoint_equality(store, FitFile, RequestedFile) ]
    /\ UNCHANGED << live, store, optimizer, compiled, num_samples, batch_size, epochs,
                    min_epsilon, current_epsilon, saved_was_dpused, saved_reason,
                    saved_epsilon, phase >>

InitConfigs == InitCompare(CmpConfigModels)

InitWeights == InitCompare(CmpWeightModels)

NextCompare == Compare

SpecConfigs == InitConfigs /\ [][NextCompare]_vars

SpecWeights == InitWeights /\ [][NextCompare]_vars
(***************************************************************************)
(* The comparators: C7, C8.                                                *)
(***************************************************************************)
\* the two snapshots have the same layer configs, layer by layer
ConfigsEqual(m1, m2) ==
    /\ Len(m1) = Len(m2)
    /\ \A l \in 1..Len(m1) : m1[l].config = m2[l].config

\* the keys on which two configs differ: changed, inserted or removed
DifferingKeys(c1, c2) ==
    { k \in DOMAIN c1 \cup DOMAIN c2 :
        \/ k \notin DOMAIN c1
        \/ k \notin DOMAIN c2
        \/ c1[k] # c2[k] }

\* the field an entry of the config report names
NamedField(e) == IF e[1] = "entry" THEN e[3] ELSE e[2]

\* the two snapshots have as many layers, and as many weight groups per layer
SameShape(m1, m2) ==
    /\ Len(m1) = Len(m2)
    /\ \A l \in 1..Len(m1) : Len(m1[l].weights) = Len(m2[l].weights)

\* the (layer, group) pairs whose arrays differ, for snapshots of the same shape
DifferingGroups(m1, m2) ==
    { p \in (1..Len(m1)) \X (1..CmpMaxGroups + 1) :
        /\ p[2] <= Len(m1[p[1]].weights)
        /\ m1[p[1]].weights[p[2]] # m2[p[1]].weights[p[2]] }

\* the first of a set of (layer, group) pairs, in the order of the loops
FirstGroup(P) ==
    CHOOSE p \in P : \A q \in P : p[1] < q[1] \/ (p[1] = q[1] /\ p[2] <= q[2])

\* C7 (as claimed; the code violates it): for two snapshots of the same
\* shape, same_weights returns true iff every weight group of the first equals
\* the corresponding group of the second, and when a group differs its message
\* names the layer and the group index of the first differing group.
C7_WeightSensitivity ==
    (ret.op = "compare" /\ SameShape(Model1, Model2)) =>
        LET D == DifferingGroups(Model1, Model2)
        IN  /\ ret.weights[1] = (D = {})
            /\ D # {} =>
                 ret.weights[2] = << << "dimension of layer differs",
                                        FirstGroup(D)[2] - 1, FirstGroup(D)[1] - 1 >> >>

\* C8: same_configs returns true iff the two snapshots have as many layers and
\* the same config at every layer index (so it is true of a snapshot and
\* itself); a differing layer count is reported as such; otherwise the report
\* names the first differing layer (0-based) and exactly the fields that were
\* changed, inserted or removed in it.
C8_ConfigEquality ==
    ret.op = "compare" =>
        LET r == ret.configs
            differing == { l \in 1..Len(Model1) :
                             Model1[l].config # Model2[l].config }
        IN  /\ r[1] = ConfigsEqual(Model1, Model2)
            /\ Model1 = Model2 => r[1]
            /\ Len(Model1) # Len(Model2) =>
                 r = << FALSE, << << "different numbers of layers" >> >> >>
            /\ (Len(Model1) = Len(Model2) /\ differing # {}) =>
                 /\ Len(r[2]) = 1
                 /\ r[2][1][2] = Min(differing) - 1
                 /\ { NamedField(e) : e \in r[2][1][4] }
                      = DifferingKeys(Model1[Min(differing)].config,
                                      Model2[Min(differing)].config)

\* C8 witness: two snapshots of two layers whose only difference is a key
\* inserted in the second layer were compared and reported unequal.
C8_Witness ==
    /\ ret.op = "compare"
    /\ Len(Model1) = 2 /\ Len(Model2) = 2
    /\ Model1[1].config = Model2[1].config
    /\ DOMAIN Model1[2].config = { "units" }
    /\ DOMAIN Model2[2].config = { "units", "use_bias" }
    /\ Model1[2].config["units"] = Model2[2].config["units"]
    /\ ~ ret.configs[1]
(***************************************************************************)
(* The five checks of the release decision, as the design states them, on  *)
(* the state posthoc_check is called in (the call changes none of these).  *)
(***************************************************************************)
\* the class an optimizer value stands for is one of the DP optimizers
identity_in_allow_list(o) ==
    \/ o.kind \in { "class", "instance" } /\ o.name \in DPClasses
    \/ o.kind = "str" /\ o.name \in allowed_optimizers

\* 1: the model's layer configs and weights are those of the snapshot of the fit
IntegrityHolds == store[FitFile] # << >> /\ live = store[FitFile][1]

\* 2: the optimizer's identity is in the DP allow-list
AllowListHolds == identity_in_allow_list(optimizer)

\* 3: the optimizer's DP-gradient flag is present and true
ProvenanceHolds == optimizer.flag = "true"

\* 4: the live provenance is the provenance saved at the fit
ConsistencyHolds ==
    /\ has_dict(optimizer)
    /\ saved_was_dpused = << check_DP_used(optimizer)[1] >>
    /\ saved_reason = << check_DP_used(optimizer)[2] >>
    /\ saved_epsilon # << >>
    /\ saved_epsilon = current_epsilon

\* 5: the epsilon of the recorded parameters is strictly below min_epsilon
BudgetHolds ==
    /\ batch_size # 0
    /\ compute_dp_sgd_privacy(num_samples, batch_size, epochs) < min_epsilon

PosthocReturned == ret.op = "posthoc_check" /\ ret.kind = "return"

\* C1 (as claimed; the code violates it): posthoc_check returns 'allow
\* release' (disclosive = False) only if all five checks hold.
C1_AllowOnlyIfAllChecks ==
    (PosthocReturned /\ ~ ret.disclosive) =>
        /\ IntegrityHolds
        /\ AllowListHolds
        /\ ProvenanceHolds
        /\ ConsistencyHolds
        /\ BudgetHolds

\* C2 (as claimed; the code violates it): when the model differs from the
\* snapshot stored by the last fit, test_checkpoint_equality returns
\* same = False and posthoc_check returns blocked with the comparators' report.
C2_IntegrityBlocks ==
    (PosthocReturned /\ store[FitFile] # << >> /\ live # store[FitFile][1]) =>
        LET r == test_checkpoint_equality(store, FitFile, RequestedFile)
        IN  /\ ~ r[1]
            /\ ret = Verdict(PyStr(r[2]), TRUE)

\* C3 (as claimed; the code violates it): with an unchanged model and an
\* optimizer whose identity is not in the DP allow-list, posthoc_check blocks
\* with the rationale of the allow-list check, which names the optimizer.
C3_AllowListBlocks ==
    (ret.op = "posthoc_check" /\ IntegrityHolds /\ ~ AllowListHolds) =>
        ret = Verdict(PyStr(<< << "optimizer is not allowed", optimizer >> >>), TRUE)

\* C4: after every compile call the bound optimizer is a new DP optimizer
\* object whose flag is false; and the evaluation that follows compile, fit,
\* compile (no refit) is blocked with the rationale of the provenance check
\* for a flag that is false.
C4_CompileResetsProvenance ==
    /\ ret.op = "compile" =>
         /\ optimizer.kind = "instance"
         /\ optimizer.name \in DPClasses
         /\ optimizer.flag = "false"
    /\ (phase = "recompiled" /\ ret.op = "posthoc_check") =>
         ret = Verdict(PyStr(reason_not_rerun), TRUE)

\* C4 witness: a fit confirmed the DP optimizer, compile was called again
\* without a refit, and the evaluation blocked at the provenance check.
C4_Witness ==
    /\ phase = "recompiled"
    /\ saved_was_dpused = << TRUE >>
    /\ ret = Verdict(PyStr(reason_not_rerun), TRUE)

\* C5: evaluated right after a successful fit with a DP optimizer,
\* posthoc_check returns the verdict of the budget alone: allow iff the epsilon
\* of the fit's (num_samples, batch_size, epochs) is strictly below
\* min_epsilon, blocked with the human-review rationale otherwise.
C5_NoFalseBlock ==
    (phase = "fitted" /\ optimizer.name \in DPClasses /\ ret.op = "posthoc_check") =>
        LET eps == compute_dp_sgd_privacy(num_samples, batch_size, epochs)
        IN  /\ batch_size # 0
            /\ ret = IF eps < min_epsilon
                     THEN Verdict(PyStr(message_allow_release(eps)), FALSE)
                     ELSE Verdict(PyStr(message_epsilon_above(eps)), TRUE)

\* C5 witness: right after a fit with a DP optimizer the evaluation allowed
\* the release.
C5_Witness ==
    /\ phase = "fitted"
    /\ optimizer.name \in DPClasses
    /\ PosthocReturned
    /\ ~ ret.disclosive

\* the rationale of the lowest-numbered check that does not hold
LowestFailingRationale ==
    IF ~ IntegrityHolds
    THEN PyStr(test_checkpoint_equality(store, FitFile, RequestedFile)[2])
    ELSE IF ~ AllowListHolds
    THEN PyStr(<< << "optimizer is not allowed", optimizer >> >>)
    ELSE IF ~ ProvenanceHolds
    THEN PyStr(IF optimizer.flag = "absent" THEN reason_not_DP ELSE reason_not_rerun)
    ELSE IF ~ ConsistencyHolds
    THEN PyStr(message_config_changed)
    ELSE PyStr(message_epsilon_above(
                   compute_dp_sgd_privacy(num_samples, batch_size, epochs)))

FailingChecks ==
    { i \in 1..5 :
        \/ i = 1 /\ ~ IntegrityHolds
        \/ i = 2 /\ ~ AllowListHolds
        \/ i = 3 /\ ~ ProvenanceHolds
        \/ i = 4 /\ ~ ConsistencyHolds
        \/ i = 5 /\ ~ BudgetHolds }

\* C6 (as claimed; the code violates it): when several checks fail,
\* posthoc_check returns blocked with the rationale of the lowest-numbered
\* failing check.
C6_OrderedShortCircuit ==
    (ret.op = "posthoc_check" /\ Cardinality(FailingChecks) >= 2) =>
        ret = Verdict(LowestFailingRationale, TRUE)

\* the optimizer values check_optimizer_allowed is asked about
OptimizerUniverse ==
    { Opt("class", c, "absent") : c \in DPClasses }
    \cup { Opt("instance", c, f) : c \in DPClasses \cup { "SGD" } , f \in { "false", "true" } }
    \cup { Opt("str", n, "absent") : n \in allowed_optimizers \cup { "SGD" } }
    \cup OptimizerChoices

\* C9 (as claimed; the code violates it): check_optimizer_allowed returns
\* (allowed, reason) with allowed = true for every identity in the allow-list
\* and allowed = false, with a reason naming the identity, for every other;
\* the result depends only on the optimizer passed in.
C9_AllowListCompleteness ==
    \A o \in OptimizerUniverse :
        LET r == check_optimizer_allowed(optimizer, o)
        IN  /\ r[1] = PyBool(identity_in_allow_list(o))
            /\ ~ identity_in_allow_list(o) =>
                 r[2] = PyStr(<< << "optimizer is not allowed", o >> >>)

\* C10: dp_epsilon_met returns ok = true iff the accountant's epsilon is
\* strictly below min_epsilon (an equal epsilon is not met), and an evaluation
\* that reaches the budget step blocks iff the budget is not met.
C10_BudgetThreshold ==
    /\ \A args \in BudgetArgs :
         ~ accountant_raises(args[1], args[2], args[3]) =>
            LET eps == compute_dp_sgd_privacy(args[1], args[2], args[3])
                met == dp_epsilon_met(args[1], args[2], args[3], min_epsilon)
            IN  /\ met[2] = eps
                /\ met[1] = (eps < min_epsilon)
                /\ eps = min_epsilon => ~ met[1]
    /\ (PosthocReturned /\ store[FitFile] # << >> /\ ProvenanceHolds /\ ConsistencyHolds) =>
         LET eps == compute_dp_sgd_privacy(num_samples, batch_size, epochs)
         IN  /\ ret.disclosive = ~ (eps < min_epsilon)
             /\ ret.msg = IF eps < min_epsilon
                          THEN PyStr(message_allow_release(eps))
                          ELSE PyStr(message_epsilon_above(eps))

\* C10 witness: an evaluation reached the budget step with an epsilon equal
\* to min_epsilon and blocked.
C10_Witness ==
    /\ PosthocReturned
    /\ store[FitFile] # << >> /\ ProvenanceHolds /\ ConsistencyHolds
    /\ batch_size # 0
    /\ compute_dp_sgd_privacy(num_samples, batch_size, epochs) = min_epsilon
    /\ ret.disclosive
(***************************************************************************)
(* The zero-batch guard and the missing snapshot: C11, C12.                *)
(***************************************************************************)
\* a message says that batch_size = 1 was substituted for 0
StatesSubstitution(msg) ==
    \E i \in 1..Len(msg) : msg[i][1] = "Division by zero setting batch_size =1"

\* the messages check_epsilon returns when it is called with batch_size = 0
ZeroBatchMessages ==
    { PyStr(check_epsilon(args[1], args[2], args[3], min_epsilon).msg) :
        args \in { a \in BudgetArgs : a[2] = 0 } }

\* C11 (as claimed; the code violates it): no path that runs the budget check
\* raises a division error for batch_size = 0, and the message check_epsilon
\* returns for batch_size = 0 states that batch_size = 1 was substituted.
C11_ZeroBatchGuard ==
    /\ ret.exc # "ZeroDivisionError"
    /\ (ret.op = "check_epsilon" /\ ret.msg \in ZeroBatchMessages) =>
          StatesSubstitution(ret.msg.s)

\* the first half of C11 on its own: the budget step of posthoc_check
C11_NoDivisionError == ret.exc # "ZeroDivisionError"

\* C12: an evaluation of a model whose fit snapshot was never stored is
\* blocked, with the rationale that reports the failed load of that file.
C12_NoTrainingBlocks ==
    (ret.op = "posthoc_check" /\ store[FitFile] = << >>) =>
        ret = Verdict(PyStr(<< << "Error re-loading model from", FitFile >> >>), TRUE)

\* C12 witness: a compiled model that was never fitted was evaluated and
\* blocked.
C12_Witness ==
    /\ ret.op = "posthoc_check"
    /\ store[FitFile] = << >>
    /\ compiled
    /\ ret.disclosive
(***************************************************************************)
(* Snapshot writes that fail: tf.keras.models.save_model raises inside     *)
(* save, which catches the exception and prints it. SpecIO runs the model  *)
(* with a store whose writes may fail. C13.                                *)
(***************************************************************************)
\* save when save_model raises: the except branch prints, the file is left
\* as it was and save returns normally
save_failed(st, name, layers) == st

\* model.fit(...) that trains while the write of fit_model.tf fails
FitFaulty(args, w) ==
    LET r == check_epsilon(args[1], args[2], args[3], min_epsilon)
    IN  /\ can_train(optimizer, compiled, args[2])
        /\ num_samples' = args[1]
        /\ batch_size' = args[2]
        /\ epochs' = args[3]
        /\ current_epsilon' = << r.current_epsilon >>
        /\ live' = trained_layers(live, w)
        /\ optimizer' = trained_optimizer(optimizer)
        /\ store' = save_failed(store, FitFile, live')
        /\ saved_was_dpused' = << check_DP_used(optimizer')[1] >>
        /\ saved_reason' = << check_DP_used(optimizer')[2] >>
        /\ saved_epsilon' = current_epsilon'
        /\ ret' = [Returned("fit") EXCEPT !.msg = PyStr(<< << "History" >> >>)]
        /\ phase' = "fitted"
        /\ UNCHANGED << compiled, min_epsilon >>

\* model.posthoc_check() while the write of requested_model.tf fails
PosthocCheckFaulty ==
    /\ store' = save_failed(store, RequestedFile, live)
    /\ ret' = posthoc_check(store', Self)
    /\ UNCHANGED << live, optimizer, compiled, num_samples, batch_size, epochs,
                    min_epsilon, current_epsilon, saved_was_dpused, saved_reason,
                    saved_epsilon, phase >>

NextIO ==
    \/ \E layer \in 1..Len(live) : \E dim \in 1..Len(live[layer].weights) :
         \E i \in 1..Len(live[layer].weights[dim]) : \E v \in WeightValues :
            EditWeight(layer, dim, i, v)
    \/ Compile
    \/ \E args \in BudgetArgs : \E refine_epsilon \in BOOLEAN : \E w \in WeightValues :
            Fit(args, refine_epsilon, w)
    \/ \E args \in BudgetArgs : \E w \in WeightValues : FitFaulty(args, w)
    \/ PosthocCheck
    \/ PosthocCheckFaulty

SpecIO == Init /\ [][NextIO]_vars

\* the second half of C13 on its own: an evaluation whose snapshot of the
\* live state is not in requested_model.tf is blocked
C13_NoStaleComparison ==
    (ret.op = "posthoc_check" /\ store[RequestedFile] # << live >>) =>
        (ret.kind = "return" /\ ret.disclosive)

\* C13 (as claimed; the code violates it): after a fit that trained,
\* fit_model.tf holds the live state; after an evaluation requested_model.tf
\* holds the live state, or else the evaluation is blocked.
C13_SnapshotWritesNotLost ==
    /\ (ret.op = "fit" /\ phase = "fitted") => store[FitFile] = << live >>
    /\ C13_NoStaleComparison
(***************************************************************************)
(* The optimizer binding and the budget on their own: SpecProv assigns     *)
(* model.optimizer from a larger set of values and leaves the architecture *)
(* alone. C14, C15, C16, C19.                                              *)
(***************************************************************************)
\* what a caller assigns to model.optimizer: a plain keras optimizer object,
\* the names and classes the constructor takes, and a tensorflow_privacy
\* optimizer object that another model was trained with
ProvOptimizerChoices ==
    OptimizerChoices \cup
    { Opt("str", "Adam", "absent"),
      Opt("class", "DPKerasAdamOptimizer", "absent"),
      Opt("instance", "DPKerasSGDOptimizer", "true") }

NextProv ==
    \/ \E layer \in 1..Len(live) : \E dim \in 1..Len(live[layer].weights) :
         \E i \in 1..Len(live[layer].weights[dim]) : \E v \in WeightValues :
            EditWeight(layer, dim, i, v)
    \/ \E o \in ProvOptimizerChoices : SwapOptimizer(o)
    \/ \E args \in BudgetArgs : CheckEpsilon(args)
    \/ Compile
    \/ \E args \in BudgetArgs : \E refine_epsilon \in BOOLEAN : \E w \in WeightValues :
            Fit(args, refine_epsilon, w)
    \/ PosthocCheck

SpecProv == Init /\ [][NextProv]_vars

\* the live provenance differs from the provenance saved after the last fit
ProvenanceDiffers ==
    \/ saved_was_dpused # << check_DP_used(optimizer)[1] >>
    \/ saved_reason # << check_DP_used(optimizer)[2] >>
    \/ saved_epsilon # current_epsilon

\* C14: when an evaluation gets past the first three checks (both snapshots
\* load, the optimizer's flag is True), it is blocked with 'Optimizer config
\* has been changed since training.' exactly when the live confirmed flag,
\* reason or epsilon differs from the one saved after the last fit.
C14_ProvenanceConsistency ==
    (ret.op = "posthoc_check" /\ store[FitFile] # << >> /\ optimizer.flag = "true") =>
        ((ret = Verdict(PyStr(message_config_changed), TRUE)) <=> ProvenanceDiffers)

\* C14 witness: after a fit the epsilon check was run again with parameters
\* that give another epsilon, and the evaluation was blocked at this step.
C14_Witness ==
    /\ ret = Verdict(PyStr(message_config_changed), TRUE)
    /\ saved_was_dpused = << TRUE >>
    /\ saved_reason = << reason_DP_run >>
    /\ saved_epsilon # << >>
    /\ saved_epsilon # current_epsilon

\* the same step blocking on the confirmed flag: the model was fitted with a
\* plain optimizer and an optimizer object with the flag True was assigned
C14_FlagDiffers ==
    /\ ret = Verdict(PyStr(message_config_changed), TRUE)
    /\ saved_was_dpused = << FALSE >>
    /\ saved_epsilon = current_epsilon

\* the same step passing: nothing differs and the evaluation goes on to the
\* budget
C14_NothingDiffers ==
    /\ ret.op = "posthoc_check"
    /\ optimizer.flag = "true"
    /\ ~ ProvenanceDiffers
    /\ ret.kind = "return"
\* the provenance state of an optimizer binding
ProvState(o) ==
    IF o.flag = "true" THEN "DP_CONFIRMED"
    ELSE IF o.flag = "false" THEN "DP_CONFIGURED_NOT_RUN"
    ELSE "NOT_DP"

\* the DP class an allow-listed identity names
AllowListClass(o) ==
    IF o.kind # "str" THEN o.name
    ELSE IF o.name = "tensorflow_privacy.DPKerasAdagradOptimizer"
    THEN "DPKerasAdagradOptimizer"
    ELSE IF o.name = "tensorflow_privacy.DPKerasAdamOptimizer"
    THEN "DPKerasAdamOptimizer"
    ELSE "DPKerasSGDOptimizer"

\* an evaluation returned 'allow release'
AllowsRelease(r) == r.op = "posthoc_check" /\ r.kind = "return" /\ ~ r.disclosive

\* NOT_DP is kept by fits and evaluations, and no evaluation of a NOT_DP
\* binding allows release
NotDPIsKept ==
    (ProvState(optimizer) = "NOT_DP" /\ ret'.op \in { "fit", "posthoc_check" }) =>
        (ProvState(optimizer') = "NOT_DP" /\ ~ AllowsRelease(ret'))

C16_NotRerunBlocks == ret = Verdict(PyStr(reason_not_rerun), TRUE)

\* an optimizer that is a str has no __dict__: the evaluation raises
C16_StrOptimizerRaises ==
    (ret.op = "posthoc_check" /\ store[FitFile] # << >> /\ ~ has_dict(optimizer)) =>
        ret = Raised("posthoc_check", "AttributeError")
(***************************************************************************)
(* fit with refine_epsilon. C17.                                           *)
(***************************************************************************)
\* what fit stamps after training
SavedProvenance == << saved_was_dpused, saved_reason, saved_epsilon >>

\* C17: a fit with refine_epsilon = True returns None after the epsilon
\* check and leaves the weights, fit_model.tf, the optimizer (its flag) and
\* the saved provenance as they were; fit_model.tf and the saved provenance
\* change only in a fit that trained, which writes the trained model and
\* stamps the provenance of the optimizer and the epsilon just computed.
C17_RefineLeavesModel ==
    [][ /\ (\E args \in BudgetArgs : \E w \in WeightValues : Fit(args, TRUE, w)) =>
              /\ ret' = Returned("fit")
              /\ current_epsilon' # << >>
              /\ UNCHANGED << live, store, optimizer, SavedProvenance >>
        /\ (store'[FitFile] # store[FitFile] \/ SavedProvenance' # SavedProvenance) =>
              /\ ret' = [Returned("fit") EXCEPT !.msg = PyStr(<< << "History" >> >>)]
              /\ store'[FitFile] = << live' >>
              /\ saved_was_dpused' = << check_DP_used(optimizer')[1] >>
              /\ saved_reason' = << check_DP_used(optimizer')[2] >>
              /\ saved_epsilon' = current_epsilon' ]_vars

\* C17 witness: after a fit that trained, a fit with refine_epsilon = True
\* and other parameters returned None; the epsilon check ran
\* (current_epsilon is new) and the saved provenance is that of the training.
C17_Witness ==
    /\ ret = Returned("fit")
    /\ store[FitFile] = << live >>
    /\ optimizer.flag = "true"
    /\ saved_epsilon # << >>
    /\ saved_epsilon # current_epsilon
(***************************************************************************)
(* Two model objects in one working directory: both write                  *)
(* tfsaves/fit_model.tf and tfsaves/requested_model.tf. The variables are  *)
(* those of the first object; the second is a compiled model of the same   *)
(* architecture, of which only its writes to the two files matter. C18.    *)
(***************************************************************************)
\* the layers of the second object when its training left the weights at w
OtherLayers(w) == trained_layers(<< DenseLayer >>, w)

\* other.fit(...): trains and saves to "tfsaves/fit_model.tf"
OtherFit(w) ==
    /\ store' = save(store, FitFile, OtherLayers(w))
    /\ ret' = NoCall
    /\ UNCHANGED << live, optimizer, compiled, num_samples, batch_size, epochs,
                    min_epsilon, current_epsilon, saved_was_dpused, saved_reason,
                    saved_epsilon, phase >>

\* other.posthoc_check(): saves to "tfsaves/requested_model.tf" and compares
OtherPosthocCheck(w) ==
    /\ store' = save(store, RequestedFile, OtherLayers(w))
    /\ ret' = NoCall
    /\ UNCHANGED << live, optimizer, compiled, num_samples, batch_size, epochs,
                    min_epsilon, current_epsilon, saved_was_dpused, saved_reason,
                    saved_epsilon, phase >>

NextShared ==
    \/ \E layer \in 1..Len(live) : \E dim \in 1..Len(live[layer].weights) :
         \E i \in 1..Len(live[layer].weights[dim]) : \E v \in WeightValues :
            EditWeight(layer, dim, i, v)
    \/ Compile
    \/ \E args \in BudgetArgs : \E refine_epsilon \in BOOLEAN : \E w \in WeightValues :
            Fit(args, refine_epsilon, w)
    \/ PosthocCheck
    \/ \E w \in WeightValues : OtherFit(w)
    \/ \E w \in WeightValues : OtherPosthocCheck(w)

SpecShared == Init /\ [][NextShared]_vars

\* the first half of C18 on its own: evaluated right after its own fit, an
\* object is compared with the snapshot of that fit
C18_OwnSnapshotCompared ==
    (ret.op = "posthoc_check" /\ phase = "fitted") => store[FitFile] = << live >>

\* C18 (as claimed; the code violates it): an evaluation compares the live
\* state with the snapshot of this object's own most recent fit: right
\* after its fit that snapshot is the live state, and an object that was
\* never fitted has no snapshot to load.
C18_InstanceIsolation ==
    /\ C18_OwnSnapshotCompared
    /\ (ret.op = "posthoc_check" /\ saved_epsilon = << >>) =>
          ret = Verdict(PyStr(<< << "Error re-loading model from", FitFile >> >>), TRUE)
(***************************************************************************)
(* The epsilon a release is based on. C19.                                 *)
(***************************************************************************)
\* C19 (as claimed; the code violates it): when an evaluation allows
\* release, the epsilon it reports, recomputed from the recorded
\* num_samples, batch_size and epochs, is the saved_epsilon of the last fit
\* that trained.
C19_ReleaseEpsilonIsSaved ==
    AllowsRelease(ret) =>
        /\ saved_epsilon = << compute_dp_sgd_privacy(num_samples, batch_size, epochs) >>
        /\ ret.msg = PyStr(message_allow_release(saved_epsilon[1]))
====
